---- MODULE Spec2Model ----
(***************************************************************************)
(* Kraus-operator channels of pennylane/ops/channel.py.                    *)
(*                                                                         *)
(* The five channel classes each expose a class method _kraus_matrices.    *)
(* The four canonical ones compute closed-form 2x2 matrices from real      *)
(* parameters; QubitChannel validates a caller-supplied list of arrays and *)
(* returns it.                                                             *)
(*                                                                         *)
(* Numbers.  numpy works in floating point; the model works in exact       *)
(* arithmetic on numbers of the form (re + i*im) * sqrt(rad), with re, im  *)
(* rationals and rad a square-free positive integer.  Square roots of      *)
(* non-negative rationals and all products are exact in this form; a sum   *)
(* is exact when both summands carry the same radicand (or one is zero),   *)
(* which is every sum the modelled computations form.                      *)
(***************************************************************************)
EXTENDS Integers, Sequences, FiniteSets, TLC

VARIABLES
    cls,       \* the class whose _kraus_matrices is called
    params,    \* the *params tuple of the call (the caller's objects)
    pc,        \* "call" before the call, "done" after it
    outcome,   \* what the call ended with: returned value or raised exception
    calls,     \* concurrent model: per thread, the call in progress and its position
    locals     \* concurrent model: per call frame, the local variables

vars == <<cls, params, pc, outcome, calls, locals>>

----------------------------------------------------------------------------
(* Bounds of the model *)

\* Longest Kraus list given to QubitChannel.
MaxOps == 3
\* Parameters gamma, p range over the grid 0/GridDen, 1/GridDen, ..., 1.
GridDen == 4
\* Threads of the concurrent model.
NumThreads == 2

----------------------------------------------------------------------------
(* Exact rationals <<n, d>>, d > 0, in lowest terms *)

Abs(n) == IF n < 0 THEN -n ELSE n

RECURSIVE GCD(_, _)
GCD(a, b) == IF b = 0 THEN a ELSE GCD(b, a % b)

Rat(n, d) == LET g == GCD(Abs(n), d) IN <<n \div g, d \div g>>

RAdd(a, b) ==
    LET g == GCD(a[2], b[2])
    IN  Rat(a[1] * (b[2] \div g) + b[1] * (a[2] \div g), (a[2] \div g) * b[2])

RNeg(a) == <<-a[1], a[2]>>

RSub(a, b) == RAdd(a, RNeg(b))

RMul(a, b) ==
    LET g1 == GCD(Abs(a[1]), b[2])
        g2 == GCD(Abs(b[1]), a[2])
    IN  <<(a[1] \div g1) * (b[1] \div g2), (a[2] \div g2) * (b[2] \div g1)>>

RAbs(a) == <<Abs(a[1]), a[2]>>

\* a/b <= c/d for a, c >= 0 and b, d > 0, by comparing continued fractions
\* (no product of large numerators and denominators is formed).
RECURSIVE FracLeq(_, _, _, _)
FracLeq(a, b, c, d) ==
    LET qa == a \div b
        qc == c \div d
        ra == a % b
        rc == c % d
    IN  IF qa # qc THEN qa < qc
        ELSE IF ra = 0 THEN TRUE
        ELSE IF rc = 0 THEN FALSE
        ELSE FracLeq(d, rc, b, ra)

\* x <= y for non-negative rationals.
RLeq(x, y) == FracLeq(x[1], x[2], y[1], y[2])

----------------------------------------------------------------------------
(* Numbers (re + i*im) * sqrt(rad) *)

Num(re, im, rad) ==
    IF re[1] = 0 /\ im[1] = 0
    THEN [re |-> <<0, 1>>, im |-> <<0, 1>>, rad |-> 1]
    ELSE [re |-> re, im |-> im, rad |-> rad]

Real(n, d) == Num(Rat(n, d), <<0, 1>>, 1)
Imag(n, d) == Num(<<0, 1>>, Rat(n, d), 1)
Zero == Real(0, 1)
One == Real(1, 1)

IsZero(x) == x.re[1] = 0 /\ x.im[1] = 0

\* x + y; exact when the radicands agree or a summand is zero.
NAdd(x, y) ==
    CASE IsZero(x) -> y
      [] IsZero(y) -> x
      [] x.rad = y.rad -> Num(RAdd(x.re, y.re), RAdd(x.im, y.im), x.rad)

NNeg(x) == Num(RNeg(x.re), RNeg(x.im), x.rad)

NSub(x, y) == NAdd(x, NNeg(y))

\* x * y: sqrt(f1) * sqrt(f2) = g * sqrt((f1/g) * (f2/g)), g = gcd(f1, f2).
NMul(x, y) ==
    LET g == GCD(x.rad, y.rad)
        G == <<g, 1>>
        re == RSub(RMul(x.re, y.re), RMul(x.im, y.im))
        im == RAdd(RMul(x.re, y.im), RMul(x.im, y.re))
    IN  Num(RMul(G, re), RMul(G, im), (x.rad \div g) * (y.rad \div g))

\* x / n for a positive integer n (the code's p / 3).
NDivInt(x, n) == Num(RMul(x.re, <<1, n>>), RMul(x.im, <<1, n>>), x.rad)

NConj(x) == Num(x.re, RNeg(x.im), x.rad)

\* Largest s with s*s dividing m (m > 0).
SquarePart(m) ==
    CHOOSE s \in 1..m :
        /\ m % (s * s) = 0
        /\ \A t \in (s + 1)..m : t * t > m \/ m % (t * t) # 0

\* np.sqrt on a non-negative rational n/d: sqrt(n*d)/d = (s/d) * sqrt(f),
\* where n*d = s*s*f with f square-free.  (np.sqrt of a negative float is
\* nan; the documented parameter domain never asks for it.)
np_sqrt(x) ==
    CASE IsZero(x) -> Zero
      [] x.rad = 1 /\ x.im[1] = 0 /\ x.re[1] > 0 ->
            LET m == x.re[1] * x.re[2]
                s == SquarePart(m)
            IN  Num(Rat(s, x.re[2]), <<0, 1>>, m \div (s * s))

RECURSIVE NSum(_)
NSum(seq) == IF seq = <<>> THEN Zero ELSE NAdd(seq[1], NSum(Tail(seq)))

----------------------------------------------------------------------------
(* numpy arrays: a shape tuple and the entries in row-major order *)

RECURSIVE Concat(_)
Concat(seqs) == IF seqs = <<>> THEN <<>> ELSE seqs[1] \o Concat(Tail(seqs))

ndim(K) == Len(K.shape)

\* np.array(rows) for a nested list of equally long rows.
np_array(rows) == [shape |-> <<Len(rows), Len(rows[1])>>, data |-> Concat(rows)]

\* np.diag(v): the square matrix with v on its diagonal.
np_diag(v) ==
    LET n == Len(v)
    IN  [shape |-> <<n, n>>,
         data |-> [i \in 1..(n * n) |->
                     IF (i - 1) \div n = (i - 1) % n THEN v[(i - 1) \div n + 1] ELSE Zero]]

\* np.eye(n)
np_eye(n) == np_diag([i \in 1..n |-> One])

\* scalar * array
Scale(c, A) == [shape |-> A.shape, data |-> [i \in DOMAIN A.data |-> NMul(c, A.data[i])]]

\* A.conj()
conj(A) == [shape |-> A.shape, data |-> [i \in DOMAIN A.data |-> NConj(A.data[i])]]

\* np.array(K_list) for a list of arrays of one shape: a new array with one
\* more leading axis.  np.array([]) has shape (0,).
np_stack(K_list) ==
    [shape |-> <<Len(K_list)>> \o (IF K_list = <<>> THEN <<>> ELSE K_list[1].shape),
     data |-> Concat([i \in 1..Len(K_list) |-> K_list[i].data])]

\* Entry [a, j, k] of a 3-dimensional array (indices from 1).
At3(A, a, j, k) == A.data[((a - 1) * A.shape[2] + (j - 1)) * A.shape[3] + k]

\* np.einsum("ajk,ajl->kl", A, B) for 3-dimensional A and B:
\* out[k, l] = sum over a, j of A[a, j, k] * B[a, j, l].
einsum_ajk_ajl_kl(A, B) ==
    LET n == A.shape[1]
        m == A.shape[2]
        d == A.shape[3]
        Entry(k, l) ==
            NSum([t \in 1..(n * m) |->
                    NMul(At3(A, (t - 1) \div m + 1, ((t - 1) % m) + 1, k),
                         At3(B, (t - 1) \div m + 1, ((t - 1) % m) + 1, l))])
    IN  [shape |-> <<d, d>>,
         data |-> [i \in 1..(d * d) |-> Entry((i - 1) \div d + 1, ((i - 1) % d) + 1)]]

\* numpy's default tolerances of allclose: rtol = 1e-05, atol = 1e-08.
rtol == <<1, 100000>>
atol == <<1, 100000000>>

\* |z| <= t for a rational z = re + i*im and a rational t >= 0.  The squares
\* are compared only when neither part alone decides.
ModLeq(z, t) ==
    IF z.im[1] = 0 THEN RLeq(RAbs(z.re), t)
    ELSE IF z.re[1] = 0 THEN RLeq(RAbs(z.im), t)
    ELSE /\ RLeq(RAbs(z.re), t)
         /\ RLeq(RAbs(z.im), t)
         /\ RLeq(RAdd(RMul(z.re, z.re), RMul(z.im, z.im)), RMul(t, t))

\* np.isclose(a, b) for a real b: |a - b| <= atol + rtol * |b|.
isclose(a, b) == ModLeq(NSub(a, b), RAdd(atol, RMul(rtol, RAbs(b.re))))

\* np.allclose(A, B) for arrays of one shape.
np_allclose(A, B) == \A i \in DOMAIN A.data : isclose(A.data[i], B.data[i])

----------------------------------------------------------------------------
(* What a call ends with *)

Return(v) == [exc |-> "none", msg |-> "", value |-> v]
Raise(e, m) == [exc |-> e, msg |-> m, value |-> <<>>]
NoOutcome == [exc |-> "pending", msg |-> "", value |-> <<>>]

MsgNotSquare ==
    "Only channels with similar input and output Hilbert space dimensions can be applied."
MsgShape == "All Kraus matrices must have the same shape."
MsgNdim == "Dimension of all Kraus matrices must be (2**num_wires, 2**num_wires)."
MsgTrace == "Only trace preserving channels can be applied."
MsgTupleIndex == "tuple index out of range"
MsgEinsum == "einstein sum subscripts string contains too many subscripts for operand 0"

----------------------------------------------------------------------------
(* The canonical channels *)

AmplitudeDamping ==
    [name |-> "AmplitudeDamping", num_params |-> 1, num_wires |-> 1,
     par_domain |-> "R", grad_method |-> "F"]

\* K0 = np.diag([1, np.sqrt(1 - gamma)])
AmplitudeDamping_K0(gamma) == np_diag(<<One, np_sqrt(NSub(One, gamma))>>)

\* K1 = np.sqrt(gamma) * np.array([[0, 1], [0, 0]])
AmplitudeDamping_K1(gamma) ==
    Scale(np_sqrt(gamma), np_array(<<<<Zero, One>>, <<Zero, Zero>>>>))

AmplitudeDamping_kraus_matrices(ps) ==
    LET gamma == ps[1]
        K0 == AmplitudeDamping_K0(gamma)
        K1 == AmplitudeDamping_K1(gamma)
    IN  <<K0, K1>>

GeneralizedAmplitudeDamping ==
    [name |-> "GeneralizedAmplitudeDamping", num_params |-> 2, num_wires |-> 1,
     par_domain |-> "R", grad_method |-> "F"]

\* K0 = np.sqrt(p) * np.diag([1, np.sqrt(1 - gamma)])
GeneralizedAmplitudeDamping_K0(gamma, p) ==
    Scale(np_sqrt(p), np_diag(<<One, np_sqrt(NSub(One, gamma))>>))

\* K1 = np.sqrt(p) * np.sqrt(gamma) * np.array([[0, 1], [0, 0]])
GeneralizedAmplitudeDamping_K1(gamma, p) ==
    Scale(NMul(np_sqrt(p), np_sqrt(gamma)), np_array(<<<<Zero, One>>, <<Zero, Zero>>>>))

\* Faulty variant of K2: the diagonal of K0 kept, [1, sqrt(1 - gamma)].
GeneralizedAmplitudeDamping_K2_with_diagonal_of_K0(gamma, p) ==
    Scale(np_sqrt(NSub(One, p)), np_diag(<<One, np_sqrt(NSub(One, gamma))>>))

\* K2 = np.sqrt(1 - p) * np.diag([np.sqrt(1 - gamma), 1])
GeneralizedAmplitudeDamping_K2(gamma, p) ==
    Scale(np_sqrt(NSub(One, p)), np_diag(<<np_sqrt(NSub(One, gamma)), One>>))

\* Faulty variant of K3: the factor sqrt(p) of K1 kept in place of sqrt(1 - p).
GeneralizedAmplitudeDamping_K3_with_sqrt_p(gamma, p) ==
    Scale(NMul(np_sqrt(p), np_sqrt(gamma)), np_array(<<<<Zero, Zero>>, <<One, Zero>>>>))

\* K3 = np.sqrt(1 - p) * np.sqrt(gamma) * np.array([[0, 0], [1, 0]])
GeneralizedAmplitudeDamping_K3(gamma, p) ==
    Scale(NMul(np_sqrt(NSub(One, p)), np_sqrt(gamma)),
          np_array(<<<<Zero, Zero>>, <<One, Zero>>>>))

GeneralizedAmplitudeDamping_kraus_matrices(ps) ==
    LET gamma == ps[1]
        p == ps[2]
        K0 == GeneralizedAmplitudeDamping_K0(gamma, p)
        K1 == GeneralizedAmplitudeDamping_K1(gamma, p)
        K2 == GeneralizedAmplitudeDamping_K2(gamma, p)
        K3 == GeneralizedAmplitudeDamping_K3(gamma, p)
    IN  <<K0, K1, K2, K3>>

PhaseDamping ==
    [name |-> "PhaseDamping", num_params |-> 1, num_wires |-> 1,
     par_domain |-> "R", grad_method |-> "F"]

\* K0 = np.diag([1, np.sqrt(1 - gamma)])
PhaseDamping_K0(gamma) == np_diag(<<One, np_sqrt(NSub(One, gamma))>>)

\* Faulty variant of K1: sqrt(1 - gamma) of K0 kept in place of sqrt(gamma).
PhaseDamping_K1_with_sqrt_of_K0(gamma) == np_diag(<<Zero, np_sqrt(NSub(One, gamma))>>)

\* K1 = np.diag([0, np.sqrt(gamma)])
PhaseDamping_K1(gamma) == np_diag(<<Zero, np_sqrt(gamma)>>)

PhaseDamping_kraus_matrices(ps) ==
    LET gamma == ps[1]
        K0 == PhaseDamping_K0(gamma)
        K1 == PhaseDamping_K1(gamma)
    IN  <<K0, K1>>

DepolarizingChannel ==
    [name |-> "DepolarizingChannel", num_params |-> 1, num_wires |-> 1,
     par_domain |-> "R", grad_method |-> "F"]

\* K0 = np.sqrt(1 - p) * np.eye(2)
DepolarizingChannel_K0(p) == Scale(np_sqrt(NSub(One, p)), np_eye(2))

\* K1 = np.sqrt(p / 3) * np.array([[0, 1], [1, 0]])
DepolarizingChannel_K1(p) ==
    Scale(np_sqrt(NDivInt(p, 3)), np_array(<<<<Zero, One>>, <<One, Zero>>>>))

\* K2 = np.sqrt(p / 3) * np.array([[0, -1j], [1j, 0]])
DepolarizingChannel_K2(p) ==
    Scale(np_sqrt(NDivInt(p, 3)),
          np_array(<<<<Zero, Imag(-1, 1)>>, <<Imag(1, 1), Zero>>>>))

\* K3 = np.sqrt(p / 3) * np.array([[1, 0], [0, -1]])
DepolarizingChannel_K3(p) ==
    Scale(np_sqrt(NDivInt(p, 3)), np_array(<<<<One, Zero>>, <<Zero, Real(-1, 1)>>>>))

DepolarizingChannel_kraus_matrices(ps) ==
    LET p == ps[1]
        K0 == DepolarizingChannel_K0(p)
        K1 == DepolarizingChannel_K1(p)
        K2 == DepolarizingChannel_K2(p)
        K3 == DepolarizingChannel_K3(p)
    IN  <<K0, K1, K2, K3>>

----------------------------------------------------------------------------
(* The generic channel *)

\* AnyWires, imported from pennylane.operation: the sentinel for "any number
\* of wires", different from every wire count.
AnyWires == -1

\* Faulty variant of the class attributes: num_params = 0.
QubitChannel_with_no_params ==
    [name |-> "QubitChannel", num_params |-> 0, num_wires |-> AnyWires,
     par_domain |-> "L", grad_method |-> "None"]

QubitChannel ==
    [name |-> "QubitChannel", num_params |-> 1, num_wires |-> AnyWires,
     par_domain |-> "L", grad_method |-> "None"]

\* Faulty variant of the squareness test: only K_list[0] is looked at.
all_square_first_only(Ks) ==
    IF Ks = <<>> THEN "True"
    ELSE IF ndim(Ks[1]) < 2 THEN "IndexError"
    ELSE IF Ks[1].shape[1] # Ks[1].shape[2] THEN "False"
    ELSE "True"

\* all(K.shape[0] == K.shape[1] for K in K_list), evaluated left to right:
\* "True", "False" at the first operator whose two leading extents differ, or
\* "IndexError" when an operator of fewer than two axes is reached first
\* (its shape tuple has no index 1, or none at all).
RECURSIVE all_square(_)
all_square(Ks) ==
    IF Ks = <<>> THEN "True"
    ELSE IF ndim(Ks[1]) < 2 THEN "IndexError"
    ELSE IF Ks[1].shape[1] # Ks[1].shape[2] THEN "False"
    ELSE all_square(Tail(Ks))

\* all(K.shape == K_list[0].shape for K in K_list)
all_same_shape(K_list) == \A i \in 1..Len(K_list) : K_list[i].shape = K_list[1].shape

\* all(K.ndim == 2 for K in K_list)
all_ndim_2(K_list) == \A i \in 1..Len(K_list) : ndim(K_list[i]) = 2

\* Faulty variant of the sum: the first operand not conjugated.
Kraus_sum_without_conj(K_arr) == einsum_ajk_ajl_kl(K_arr, K_arr)

\* Kraus_sum = np.einsum("ajk,ajl->kl", K_arr.conj(), K_arr)
Kraus_sum(K_arr) == einsum_ajk_ajl_kl(conj(K_arr), K_arr)

\* Faulty variant of the completeness test: only the diagonal is compared.
is_trace_preserving_on_diagonal(K_list) ==
    LET S == Kraus_sum(np_stack(K_list))
        d == K_list[1].shape[1]
    IN  \A k \in 1..d : isclose(S.data[(k - 1) * d + k], One)

\* np.allclose(Kraus_sum, np.eye(K_list[0].shape[0]))
is_trace_preserving(K_list) ==
    np_allclose(Kraus_sum(np_stack(K_list)), np_eye(K_list[1].shape[1]))

QubitChannel_kraus_matrices(ps) ==
    LET K_list == ps[1]
        square == all_square(K_list)
    IN  CASE square = "IndexError" -> Raise("IndexError", MsgTupleIndex)
          [] square = "False" -> Raise("ValueError", MsgNotSquare)
          [] OTHER ->
                IF ~all_same_shape(K_list) THEN Raise("ValueError", MsgShape)
                ELSE IF ~all_ndim_2(K_list) THEN Raise("ValueError", MsgNdim)
                ELSE IF ndim(np_stack(K_list)) # 3 THEN Raise("ValueError", MsgEinsum)
                ELSE IF ~is_trace_preserving(K_list) THEN Raise("ValueError", MsgTrace)
                ELSE Return(K_list)

----------------------------------------------------------------------------
(* Inputs *)

\* gamma and p: the grid 0, 1/GridDen, ..., 1 of the documented domain [0, 1].
Grid == {Real(n, GridDen) : n \in 0..GridDen}

\* Arrays a caller may put in a Kraus list.
I2 == np_eye(2)
I3 == np_eye(3)
PauliY == np_array(<<<<Zero, Imag(-1, 1)>>, <<Imag(1, 1), Zero>>>>)
\* 0.6 * I and 0.8 * Y: together a valid channel
A06 == Scale(Real(3, 5), I2)
B08 == Scale(Real(4, 5), PauliY)
\* 0.9 * I: two of them sum to 1.62 * I
T09 == Scale(Real(9, 10), I2)
\* 1e-4 * I: with I the sum is (1 + 1e-8) * I, inside allclose's tolerance
Eps == Scale(Real(1, 10000), I2)
\* [[1, 1], [0, 0]]: unit diagonal of K^dagger K, off-diagonal 1
Shear == np_array(<<<<One, One>>, <<Zero, Zero>>>>)
\* a 2 x 3 matrix
N23 == np_array(<<<<One, Zero, Zero>>, <<Zero, One, Zero>>>>)
\* arrays of rank 0, 1 and 3
S0 == [shape |-> <<>>, data |-> <<One>>]
V2 == [shape |-> <<2>>, data |-> <<One, Zero>>]
T222 == [shape |-> <<2, 2, 2>>, data |-> [i \in 1..8 |-> Zero]]

Pool == {I2, I3, A06, B08, T09, Eps, Shear, N23, S0, V2, T222}

KrausLists == UNION {[1..n -> Pool] : n \in 0..MaxOps}

Classes ==
    {AmplitudeDamping, GeneralizedAmplitudeDamping, PhaseDamping,
     DepolarizingChannel, QubitChannel}

ParamsOf(c) ==
    CASE c = GeneralizedAmplitudeDamping -> {<<gamma, p>> : gamma \in Grid, p \in Grid}
      [] c = QubitChannel -> {<<K_list>> : K_list \in KrausLists}
      [] OTHER -> {<<x>> : x \in Grid}

----------------------------------------------------------------------------
(* Call frames of the concurrent model *)

Threads == 1..NumThreads

\* A thread that is not in a call.
Idle == [pc |-> "idle", cls |-> QubitChannel, params |-> <<>>, outcome |-> NoOutcome]

\* A frame before any local is bound.
EmptyArray == [shape |-> <<0>>, data |-> <<>>]
NoLocals ==
    [gamma |-> Zero, p |-> Zero, K0 |-> EmptyArray, K1 |-> EmptyArray,
     K2 |-> EmptyArray, K3 |-> EmptyArray, K_list |-> <<>>,
     K_arr |-> EmptyArray, Kraus_sum |-> EmptyArray]

----------------------------------------------------------------------------
(* One call of one class's _kraus_matrices *)

Init ==
    /\ cls \in Classes
    /\ params \in ParamsOf(cls)
    /\ pc = "call"
    /\ outcome = NoOutcome
    /\ calls = [t \in Threads |-> Idle]
    /\ locals = [t \in Threads |-> NoLocals]

Finish(result) ==
    /\ outcome' = result
    /\ pc' = "done"
    /\ UNCHANGED <<cls, params, calls, locals>>

CallAmplitudeDamping ==
    /\ pc = "call"
    /\ cls = AmplitudeDamping
    /\ Finish(Return(AmplitudeDamping_kraus_matrices(params)))

CallGeneralizedAmplitudeDamping ==
    /\ pc = "call"
    /\ cls = GeneralizedAmplitudeDamping
    /\ Finish(Return(GeneralizedAmplitudeDamping_kraus_matrices(params)))

CallPhaseDamping ==
    /\ pc = "call"
    /\ cls = PhaseDamping
    /\ Finish(Return(PhaseDamping_kraus_matrices(params)))

CallDepolarizingChannel ==
    /\ pc = "call"
    /\ cls = DepolarizingChannel
    /\ Finish(Return(DepolarizingChannel_kraus_matrices(params)))

CallQubitChannel ==
    /\ pc = "call"
    /\ cls = QubitChannel
    /\ Finish(QubitChannel_kraus_matrices(params))

Next ==
    \/ CallAmplitudeDamping
    \/ CallGeneralizedAmplitudeDamping
    \/ CallPhaseDamping
    \/ CallDepolarizingChannel
    \/ CallQubitChannel

Spec == Init /\ [][Next]_vars

----------------------------------------------------------------------------
(* Concurrent calls: every thread calls the class methods again and again,  *)
(* one source statement per step, in a call frame of its own.               *)

\* The calls the threads choose from.
ThreadCalls ==
    {[cls |-> AmplitudeDamping, params |-> <<Real(1, 4)>>],
     [cls |-> AmplitudeDamping, params |-> <<Real(3, 4)>>],
     [cls |-> GeneralizedAmplitudeDamping, params |-> <<Real(1, 4), Real(1, 2)>>],
     [cls |-> PhaseDamping, params |-> <<Real(1, 4)>>],
     [cls |-> DepolarizingChannel, params |-> <<Real(3, 4)>>],
     [cls |-> QubitChannel, params |-> <<<<A06, B08>>>>],
     [cls |-> QubitChannel, params |-> <<<<I2, I3>>>>],
     [cls |-> QubitChannel, params |-> <<<<V2>>>>]}

\* The first statement of each class's _kraus_matrices.
Entry(c) ==
    CASE c = AmplitudeDamping -> "AD61"
      [] c = GeneralizedAmplitudeDamping -> "GAD118"
      [] c = PhaseDamping -> "PD164"
      [] c = DepolarizingChannel -> "DC219"
      [] c = QubitChannel -> "QC251"

\* Faulty variant of the frame: the locals kept in one place for all threads
\* (as attributes of the class would be).
SharedFrame(t) == 1

\* Where thread t's call keeps its local variables: a frame of its own.
Frame(t) == t

\* The local variables of thread t's call.
Loc(t) == locals[Frame(t)]

At(t, label) == calls[t].pc = label

\* Bind local variable name to value and go on to statement next.
Bind(t, name, value, next) ==
    /\ locals' = [locals EXCEPT ![Frame(t)][name] = value]
    /\ calls' = [calls EXCEPT ![t].pc = next]
    /\ UNCHANGED <<cls, params, pc, outcome>>

Goto(t, next) ==
    /\ calls' = [calls EXCEPT ![t].pc = next]
    /\ UNCHANGED <<cls, params, pc, outcome, locals>>

\* The call ends (return or raise): its frame is discarded.
End(t, result) ==
    /\ calls' = [calls EXCEPT ![t].pc = "returned", ![t].outcome = result]
    /\ locals' = [locals EXCEPT ![Frame(t)] = NoLocals]
    /\ UNCHANGED <<cls, params, pc, outcome>>

Begin(t) ==
    /\ At(t, "idle")
    /\ \E c \in ThreadCalls :
          calls' = [calls EXCEPT ![t] = [pc |-> Entry(c.cls), cls |-> c.cls,
                                         params |-> c.params, outcome |-> NoOutcome]]
    /\ UNCHANGED <<cls, params, pc, outcome, locals>>

\* The caller takes the result.
Release(t) ==
    /\ At(t, "returned")
    /\ calls' = [calls EXCEPT ![t] = Idle]
    /\ UNCHANGED <<cls, params, pc, outcome, locals>>

AD61(t) == At(t, "AD61") /\ Bind(t, "gamma", calls[t].params[1], "AD62")
AD62(t) == At(t, "AD62") /\ Bind(t, "K0", AmplitudeDamping_K0(Loc(t).gamma), "AD63")
AD63(t) == At(t, "AD63") /\ Bind(t, "K1", AmplitudeDamping_K1(Loc(t).gamma), "AD64")
AD64(t) == At(t, "AD64") /\ End(t, Return(<<Loc(t).K0, Loc(t).K1>>))

GAD118(t) ==
    /\ At(t, "GAD118")
    /\ locals' = [locals EXCEPT ![Frame(t)].gamma = calls[t].params[1],
                                ![Frame(t)].p = calls[t].params[2]]
    /\ calls' = [calls EXCEPT ![t].pc = "GAD119"]
    /\ UNCHANGED <<cls, params, pc, outcome>>
GAD119(t) ==
    At(t, "GAD119")
        /\ Bind(t, "K0", GeneralizedAmplitudeDamping_K0(Loc(t).gamma, Loc(t).p), "GAD120")
GAD120(t) ==
    At(t, "GAD120")
        /\ Bind(t, "K1", GeneralizedAmplitudeDamping_K1(Loc(t).gamma, Loc(t).p), "GAD121")
GAD121(t) ==
    At(t, "GAD121")
        /\ Bind(t, "K2", GeneralizedAmplitudeDamping_K2(Loc(t).gamma, Loc(t).p), "GAD122")
GAD122(t) ==
    At(t, "GAD122")
        /\ Bind(t, "K3", GeneralizedAmplitudeDamping_K3(Loc(t).gamma, Loc(t).p), "GAD123")
GAD123(t) ==
    At(t, "GAD123") /\ End(t, Return(<<Loc(t).K0, Loc(t).K1, Loc(t).K2, Loc(t).K3>>))

PD164(t) == At(t, "PD164") /\ Bind(t, "gamma", calls[t].params[1], "PD165")
PD165(t) == At(t, "PD165") /\ Bind(t, "K0", PhaseDamping_K0(Loc(t).gamma), "PD166")
PD166(t) == At(t, "PD166") /\ Bind(t, "K1", PhaseDamping_K1(Loc(t).gamma), "PD167")
PD167(t) == At(t, "PD167") /\ End(t, Return(<<Loc(t).K0, Loc(t).K1>>))

DC219(t) == At(t, "DC219") /\ Bind(t, "p", calls[t].params[1], "DC220")
DC220(t) == At(t, "DC220") /\ Bind(t, "K0", DepolarizingChannel_K0(Loc(t).p), "DC221")
DC221(t) == At(t, "DC221") /\ Bind(t, "K1", DepolarizingChannel_K1(Loc(t).p), "DC222")
DC222(t) == At(t, "DC222") /\ Bind(t, "K2", DepolarizingChannel_K2(Loc(t).p), "DC223")
DC223(t) == At(t, "DC223") /\ Bind(t, "K3", DepolarizingChannel_K3(Loc(t).p), "DC224")
DC224(t) ==
    At(t, "DC224") /\ End(t, Return(<<Loc(t).K0, Loc(t).K1, Loc(t).K2, Loc(t).K3>>))

QC251(t) == At(t, "QC251") /\ Bind(t, "K_list", calls[t].params[1], "QC254")
QC254(t) ==
    /\ At(t, "QC254")
    /\ LET square == all_square(Loc(t).K_list)
       IN  CASE square = "IndexError" -> End(t, Raise("IndexError", MsgTupleIndex))
             [] square = "False" -> End(t, Raise("ValueError", MsgNotSquare))
             [] OTHER -> Goto(t, "QC260")
QC260(t) ==
    /\ At(t, "QC260")
    /\ IF ~all_same_shape(Loc(t).K_list)
       THEN End(t, Raise("ValueError", MsgShape))
       ELSE Goto(t, "QC264")
QC264(t) ==
    /\ At(t, "QC264")
    /\ IF ~all_ndim_2(Loc(t).K_list)
       THEN End(t, Raise("ValueError", MsgNdim))
       ELSE Goto(t, "QC270")
QC270(t) == At(t, "QC270") /\ Bind(t, "K_arr", np_stack(Loc(t).K_list), "QC271")
QC271(t) ==
    /\ At(t, "QC271")
    /\ IF ndim(Loc(t).K_arr) # 3
       THEN End(t, Raise("ValueError", MsgEinsum))
       ELSE Bind(t, "Kraus_sum", Kraus_sum(Loc(t).K_arr), "QC272")
QC272(t) ==
    /\ At(t, "QC272")
    /\ IF ~np_allclose(Loc(t).Kraus_sum, np_eye(Loc(t).K_list[1].shape[1]))
       THEN End(t, Raise("ValueError", MsgTrace))
       ELSE Goto(t, "QC275")
QC275(t) == At(t, "QC275") /\ End(t, Return(Loc(t).K_list))

ThreadsInit ==
    /\ cls = QubitChannel
    /\ params = <<<<>>>>
    /\ pc = "threads"
    /\ outcome = NoOutcome
    /\ calls = [t \in Threads |-> Idle]
    /\ locals = [t \in Threads |-> NoLocals]

ThreadsNext ==
    \E t \in Threads :
        \/ Begin(t) \/ Release(t)
        \/ AD61(t) \/ AD62(t) \/ AD63(t) \/ AD64(t)
        \/ GAD118(t) \/ GAD119(t) \/ GAD120(t) \/ GAD121(t) \/ GAD122(t) \/ GAD123(t)
        \/ PD164(t) \/ PD165(t) \/ PD166(t) \/ PD167(t)
        \/ DC219(t) \/ DC220(t) \/ DC221(t) \/ DC222(t) \/ DC223(t) \/ DC224(t)
        \/ QC251(t) \/ QC254(t) \/ QC260(t) \/ QC264(t)
        \/ QC270(t) \/ QC271(t) \/ QC272(t) \/ QC275(t)

SpecThreads == ThreadsInit /\ [][ThreadsNext]_vars

----------------------------------------------------------------------------
(* Vocabulary of the properties *)

Done == pc = "done"
Returned == outcome.exc = "none"
Generic == cls = QubitChannel
Failed(m) == outcome.exc = "ValueError" /\ outcome.msg = m

\* Entry [j, k] of a matrix (indices from 1).
At2(K, j, k) == K.data[(j - 1) * K.shape[2] + k]

Is2D(K) == ndim(K) = 2
IsSquare(K) == K.shape[1] = K.shape[2]

\* Entry [k, l] of the sum over the operators of K^dagger K, for d x d operators.
DaggerSum(Ks, d, k, l) ==
    NSum([t \in 1..(Len(Ks) * d) |->
            NMul(NConj(At2(Ks[((t - 1) \div d) + 1], ((t - 1) % d) + 1, k)),
                 At2(Ks[((t - 1) \div d) + 1], ((t - 1) % d) + 1, l))])

Delta(k, l) == IF k = l THEN One ELSE Zero

\* The completeness relation, exactly.
Complete(Ks, d) == \A k, l \in 1..d : DaggerSum(Ks, d, k, l) = Delta(k, l)

\* The completeness relation up to the tolerance of the closeness test:
\* every entry within 1e-8 + 1e-5 * |identity entry| of the identity's.
CompleteWithinTolerance(Ks, d) ==
    \A k, l \in 1..d :
        LET diff == NSub(DaggerSum(Ks, d, k, l), Delta(k, l))
        IN  /\ diff.rad = 1
            /\ ModLeq(diff, IF k = l THEN <<1001, 100000000>> ELSE <<1, 100000000>>)

\* A list of same-shape square 2-D operators.
WellShaped(Ks) ==
    \A i \in 1..Len(Ks) : Is2D(Ks[i]) /\ IsSquare(Ks[i]) /\ Ks[i].shape = Ks[1].shape

----------------------------------------------------------------------------
(* Properties of the generic channel *)

\* C1 (as stated): whenever QubitChannel._kraus_matrices returns, the returned
\* operators are all 2-dimensional, square and of one shape d x d, and the sum
\* over the operators of K^dagger K equals the d x d identity.
C1_ReturnedSetIsExactlyComplete ==
    (Done /\ Generic /\ Returned) =>
        LET Ks == outcome.value
        IN  /\ Ks # <<>>
            /\ WellShaped(Ks)
            /\ Complete(Ks, Ks[1].shape[1])

\* C1 (as amended): whenever QubitChannel._kraus_matrices returns, the returned
\* operators are all 2-dimensional, square and of one shape d x d, and the sum
\* over the operators of K^dagger K equals the d x d identity up to the
\* tolerance of the closeness test (1e-8 + 1e-5 * |identity entry| per entry).
C1_ReturnedSetIsCompleteWithinTolerance ==
    (Done /\ Generic /\ Returned) =>
        LET Ks == outcome.value
        IN  /\ Ks # <<>>
            /\ WellShaped(Ks)
            /\ CompleteWithinTolerance(Ks, Ks[1].shape[1])

\* A returned set whose completeness sum is (1 + 1e-8) * I.
C1_Witness == Done /\ Generic /\ Returned /\ outcome.value = <<I2, Eps>>

\* C2: every call of the generic channel either returns its input or fails
\* with one of the four validation failures (non-square, inconsistent
\* dimensions, invalid rank, not trace preserving); it never ends otherwise.
C2_OnlyFiveOutcomes ==
    (Done /\ Generic) =>
        \/ outcome = Return(params[1])
        \/ Failed(MsgNotSquare)
        \/ Failed(MsgShape)
        \/ Failed(MsgNdim)
        \/ Failed(MsgTrace)

\* An operator that is not square.  An operator of fewer than two axes has
\* no row and column counts to compare: it counts as non-square when
\* axesRequired, and is left to the rank check otherwise.
NonSquare(K, axesRequired) ==
    IF ndim(K) < 2 THEN axesRequired ELSE K.shape[1] # K.shape[2]

\* The failure of the first of the four checks a non-empty input violates,
\* "" when it violates none.
FirstViolated(Ks, axesRequired) ==
    IF \E i \in 1..Len(Ks) : NonSquare(Ks[i], axesRequired) THEN MsgNotSquare
    ELSE IF \E i \in 1..Len(Ks) : Ks[i].shape # Ks[1].shape THEN MsgShape
    ELSE IF \E i \in 1..Len(Ks) : ~Is2D(Ks[i]) THEN MsgNdim
    ELSE IF ~CompleteWithinTolerance(Ks, Ks[1].shape[1]) THEN MsgTrace
    ELSE ""

\* What the call reported: "" for a return, the message of a validation
\* failure, the exception's name for anything else.
Reported ==
    IF Returned THEN ""
    ELSE IF outcome.exc = "ValueError" THEN outcome.msg
    ELSE outcome.exc

\* C3: the validator applies the checks in the order square, same shape as the
\* first, rank 2, completeness, and reports the failure of the first check
\* the input violates (under either reading of "square" for an operator of
\* fewer than two axes).
C3_ReportsFirstViolatedCheck ==
    (Done /\ Generic /\ params[1] # <<>>) =>
        Reported \in {FirstViolated(params[1], FALSE), FirstViolated(params[1], TRUE)}

\* The same statement for inputs whose operators all have two or more axes
\* (where the squareness test can be evaluated): the extent of the divergence.
C3_HoldsForRankTwoAndHigher ==
    (Done /\ Generic /\ params[1] # <<>>
        /\ \A i \in 1..Len(params[1]) : ndim(params[1][i]) >= 2) =>
        Reported = FirstViolated(params[1], FALSE)

\* The input is a non-empty list of same-shape square 2-D operators whose
\* completeness sum is exactly the identity.
ValidKraus(Ks) == Ks # <<>> /\ WellShaped(Ks) /\ Complete(Ks, Ks[1].shape[1])

\* C4: for a non-empty list of same-shape square 2-D matrices whose
\* completeness sum equals the identity, the call returns exactly the input
\* list and leaves the caller's list as it was.
C4_ValidInputReturnedUnchanged ==
    [][(pc = "call" /\ Generic /\ ValidKraus(params[1])) =>
            (outcome' = Return(params[1]) /\ params' = params)]_vars

C4_Witness ==
    Done /\ Generic /\ params[1] = <<A06, B08>> /\ outcome.value = <<A06, B08>>

\* All orderings of a list.
Perms(Ks) ==
    LET n == Len(Ks)
    IN  {[i \in 1..n |-> Ks[f[i]]] :
            f \in {g \in [1..n -> 1..n] : \A i, j \in 1..n : g[i] = g[j] => i = j}}

Verdict(o) == <<o.exc, o.msg>>

\* C10: for a non-empty input whose operators all have rank 2 or higher, every
\* reordering of the input gets the same verdict: accepted, or rejected with
\* the same failure.
C10_VerdictIgnoresOrder ==
    (Done /\ Generic /\ params[1] # <<>>
        /\ \A i \in 1..Len(params[1]) : ndim(params[1][i]) >= 2) =>
        \A Ps \in Perms(params[1]) :
            Verdict(QubitChannel_kraus_matrices(<<Ps>>)) = Verdict(outcome)

\* A rejected input whose first operator is fine and whose last is not square.
C10_Witness ==
    Done /\ Generic /\ params[1] = <<I2, I3, N23>> /\ Failed(MsgNotSquare)

----------------------------------------------------------------------------
(* Properties of the canonical channels *)

Canonical == cls \in {AmplitudeDamping, GeneralizedAmplitudeDamping,
                      PhaseDamping, DepolarizingChannel}

\* Number of Kraus matrices each canonical channel is documented to return.
KrausCount ==
    CASE cls = AmplitudeDamping -> 2
      [] cls = GeneralizedAmplitudeDamping -> 4
      [] cls = PhaseDamping -> 2
      [] cls = DepolarizingChannel -> 4

ZeroMatrix2 == [shape |-> <<2, 2>>, data |-> <<Zero, Zero, Zero, Zero>>]
Identity2 == [shape |-> <<2, 2>>, data |-> <<One, Zero, Zero, One>>]

\* C5: for every parameter value in [0, 1], each canonical channel returns its
\* documented number of 2 x 2 matrices and their completeness sum is the 2 x 2
\* identity: diagonal entries 1, off-diagonal entries 0.
C5_CanonicalSetsAreComplete ==
    (Done /\ Canonical) =>
        /\ Returned
        /\ Len(outcome.value) = KrausCount
        /\ \A i \in 1..Len(outcome.value) : outcome.value[i].shape = <<2, 2>>
        /\ Complete(outcome.value, 2)

\* Full depolarization, p = 1: every non-zero entry is an irrational 1/sqrt(3).
C5_Witness ==
    Done /\ cls = DepolarizingChannel /\ params = <<One>>
        /\ At2(outcome.value[2], 1, 2) = np_sqrt(Real(1, 3))

\* C6 (as stated): with p = 1, GeneralizedAmplitudeDamping returns what
\* AmplitudeDamping returns for the same gamma.
C6_EqualsAmplitudeDampingAtP1 ==
    (Done /\ cls = GeneralizedAmplitudeDamping /\ params[2] = One) =>
        outcome.value = AmplitudeDamping_kraus_matrices(<<params[1]>>)

\* C6 (as amended): with p = 1, GeneralizedAmplitudeDamping returns four
\* matrices; the first two are the two AmplitudeDamping returns for the same
\* gamma, and the last two are zero matrices.
C6_ExtendsAmplitudeDampingAtP1 ==
    (Done /\ cls = GeneralizedAmplitudeDamping /\ params[2] = One) =>
        /\ Len(outcome.value) = 4
        /\ SubSeq(outcome.value, 1, 2) = AmplitudeDamping_kraus_matrices(<<params[1]>>)
        /\ outcome.value[3] = ZeroMatrix2
        /\ outcome.value[4] = ZeroMatrix2

C6_Witness ==
    Done /\ cls = GeneralizedAmplitudeDamping /\ params = <<Real(1, 2), One>>
        /\ Len(outcome.value) = 4

\* The metadata the claim lists for the canonical classes: one wire, real
\* scalar parameters, finite-difference gradient, and the parameter count n.
CanonicalMetadata(c, n) ==
    /\ c.num_params = n
    /\ c.num_wires = 1
    /\ c.par_domain = "R"
    /\ c.grad_method = "F"

\* The metadata of the generic class with parameter count n: any number of
\* wires, a list of matrices, no gradient method.
GenericMetadata(c, n) ==
    /\ c.num_params = n
    /\ c.num_wires = AnyWires
    /\ c.par_domain = "L"
    /\ c.grad_method = "None"

MetadataWithGenericCount(n) ==
    /\ cls.name = "AmplitudeDamping" => CanonicalMetadata(cls, 1)
    /\ cls.name = "GeneralizedAmplitudeDamping" => CanonicalMetadata(cls, 2)
    /\ cls.name = "PhaseDamping" => CanonicalMetadata(cls, 1)
    /\ cls.name = "DepolarizingChannel" => CanonicalMetadata(cls, 1)
    /\ cls.name = "QubitChannel" => GenericMetadata(cls, n)

\* C7 (as stated): num_params is 1, 2, 1, 1 for the canonical classes and 0 for
\* the generic class; the canonical classes take 1 wire, real parameters and
\* the finite-difference gradient; the generic class takes any number of
\* wires and a matrix list and has no gradient method.
C7_MetadataGenericHasNoParams == MetadataWithGenericCount(0)

\* C7 (as amended): the same, except that num_params of the generic class is
\* 1: its one parameter is the list of Kraus matrices, read as params[0].
C7_MetadataGenericHasOneParam == MetadataWithGenericCount(1)

C7_Witness == Done /\ Generic /\ Returned /\ Len(params) = 1 /\ cls.num_params = 1

\* C8: at zero noise AmplitudeDamping (gamma = 0), PhaseDamping (gamma = 0) and
\* DepolarizingChannel (p = 0) return the identity followed by zero matrices
\* only; at gamma = 1 AmplitudeDamping returns K0 = diag(1, 0).
C8_ZeroNoiseAndFullDamping ==
    /\ (Done /\ cls \in {AmplitudeDamping, PhaseDamping} /\ params = <<Zero>>) =>
            outcome.value = <<Identity2, ZeroMatrix2>>
    /\ (Done /\ cls = DepolarizingChannel /\ params = <<Zero>>) =>
            outcome.value = <<Identity2, ZeroMatrix2, ZeroMatrix2, ZeroMatrix2>>
    /\ (Done /\ cls = AmplitudeDamping /\ params = <<One>>) =>
            outcome.value[1] = [shape |-> <<2, 2>>, data |-> <<One, Zero, Zero, Zero>>]

C8_Witness ==
    Done /\ cls = PhaseDamping /\ params = <<Zero>> /\ outcome.value[2] = ZeroMatrix2

----------------------------------------------------------------------------
(* Determinism under concurrency *)

\* What a call of class c with parameters ps ends with when it runs alone.
Alone(c, ps) ==
    CASE c = AmplitudeDamping -> Return(AmplitudeDamping_kraus_matrices(ps))
      [] c = GeneralizedAmplitudeDamping ->
            Return(GeneralizedAmplitudeDamping_kraus_matrices(ps))
      [] c = PhaseDamping -> Return(PhaseDamping_kraus_matrices(ps))
      [] c = DepolarizingChannel -> Return(DepolarizingChannel_kraus_matrices(ps))
      [] c = QubitChannel -> QubitChannel_kraus_matrices(ps)

\* C9: in every interleaving of calls from several threads, failing generic
\* calls included, the outcome of every call is the one its own class and
\* parameters determine, whatever the other threads ran before or meanwhile;
\* so two calls with the same parameters end with the same outcome.
C9_OutcomeDependsOnOwnArgumentsOnly ==
    /\ \A t \in Threads :
          At(t, "returned") => calls[t].outcome = Alone(calls[t].cls, calls[t].params)
    /\ \A t, u \in Threads :
          (At(t, "returned") /\ At(u, "returned")
              /\ calls[t].cls = calls[u].cls /\ calls[t].params = calls[u].params)
          => calls[t].outcome = calls[u].outcome

\* Two threads ran calls of one class with different parameters side by side;
\* one has returned while the other is still inside its call.
C9_Witness ==
    \E t, u \in Threads :
        /\ At(t, "returned") /\ calls[t].cls = AmplitudeDamping
        /\ calls[t].params = <<Real(1, 4)>>
        /\ At(u, "AD63") /\ calls[u].params = <<Real(3, 4)>>

====
